---------------------------- MODULE Spec2Model ----------------------------
(***************************************************************************)
(* Verification model of the Pokemon team generator's validation core:   *)
(*   validateEVSpread, validatePokemon, validateTeam (utils/pokemon-utils) *)
(*   validateAndFixTeam, generateTeamWithAI (server).                      *)
(*                                                                         *)
(* A JavaScript string is a sequence of one-character strings.  Every     *)
(* string operation the code uses (split, trim, startsWith, includes,      *)
(* match(/\d+/g), parseInt, replace, join, template literals) is computed  *)
(* on those characters.  A thrown TypeError is the record TypeError.       *)
(***************************************************************************)
EXTENDS Integers, Sequences, FiniteSets

VARIABLES
    harness,     \* which function's callers run: "ev", "pokemon", "team" or "scan"
    pc,          \* "compose": the input is being put together; "returned": the call returned
    call,        \* the function that was called ("none" before the call)
    steps,       \* number of pieces / replacements spent composing the input
    evString,    \* SpecEV: the argument of validateEVSpread
    entryLines,  \* SpecPokemon: the lines of the argument of validatePokemon
    slots,       \* SpecTeam: the entries and separators of the team text
    arg,         \* the text handed to the called function
    ret,         \* what the call returned (or threw)
    scan         \* SpecScan: the repair loop of validateAndFixTeam, line by line

vars == <<harness, pc, call, steps, evString, entryLines, slots, arg, ret, scan>>

(***************************************************************************)
(* JavaScript string primitives                                            *)
(***************************************************************************)

\* String.prototype.trim strips these (the ASCII part of JS WhiteSpace/LineTerminator)
IsWhite(c) == c \in {" ", "\t", "\r", "\n"}

\* /\d/
IsDigit(c) == c \in {"0", "1", "2", "3", "4", "5", "6", "7", "8", "9"}

DigitChars == <<"0", "1", "2", "3", "4", "5", "6", "7", "8", "9">>

DigitVal(c) == (CHOOSE k \in 1..10 : DigitChars[k] = c) - 1

\* s has sub at (1-based) position i
MatchAt(s, sub, i) ==
    /\ i + Len(sub) - 1 <= Len(s)
    /\ \A k \in 1..Len(sub) : s[i + k - 1] = sub[k]

\* String.prototype.indexOf from position i: the first position of sub, 0 if none
IndexFrom(s, sub, i) ==
    LET last == Len(s) - Len(sub) + 1
    IN  IF \E j \in i..last : MatchAt(s, sub, j)
        THEN CHOOSE j \in i..last :
                 MatchAt(s, sub, j) /\ \A k \in i..(j - 1) : ~MatchAt(s, sub, k)
        ELSE 0

\* String.prototype.startsWith
StartsWith(s, p) == MatchAt(s, p, 1)

\* String.prototype.includes
Includes(s, sub) == \E j \in 1..(Len(s) - Len(sub) + 1) : MatchAt(s, sub, j)

\* the number of occurrences of sep that end right where position i starts, back
\* to back (sep is one or two characters long: the code splits on '\n' and '\n\n')
OverlapsBefore(s, sep, i) ==
    Cardinality({r \in 1..(i - 1) : \A k \in 1..r : MatchAt(s, sep, i - k)})

\* split takes the occurrences of sep from left to right, each starting after the
\* end of the one before: of occurrences that overlap, every second one
IsSeparatorAt(s, sep, i) ==
    /\ MatchAt(s, sep, i)
    /\ Len(sep) = 1 \/ OverlapsBefore(s, sep, i) % 2 = 0

\* String.prototype.split with a separator string of one or two characters;
\* the empty string splits to one empty piece.
Split(s, sep) ==
    LET cuts == SelectSeq([i \in 1..Len(s) |-> i], LAMBDA i : IsSeparatorAt(s, sep, i))
    IN  [k \in 1..(Len(cuts) + 1) |->
            SubSeq(s, IF k = 1 THEN 1 ELSE cuts[k - 1] + Len(sep),
                      IF k > Len(cuts) THEN Len(s) ELSE cuts[k] - 1)]

\* the first position that holds no white space (Len(s) + 1 if none)
FirstNonWhite(s) ==
    CHOOSE i \in 1..(Len(s) + 1) :
        /\ i = Len(s) + 1 \/ ~IsWhite(s[i])
        /\ \A j \in 1..(i - 1) : IsWhite(s[j])

\* the last position that holds no white space (0 if none)
LastNonWhite(s) ==
    CHOOSE i \in 0..Len(s) :
        /\ i = 0 \/ ~IsWhite(s[i])
        /\ \A j \in (i + 1)..Len(s) : IsWhite(s[j])

\* String.prototype.trim
Trim(s) == SubSeq(s, FirstNonWhite(s), LastNonWhite(s))

RECURSIVE JoinRange(_, _, _, _)
\* parts[lo] sep ... sep parts[hi], put together by halves
JoinRange(parts, sep, lo, hi) ==
    IF lo > hi THEN << >>
    ELSE IF lo = hi THEN parts[lo]
    ELSE JoinRange(parts, sep, lo, (lo + hi) \div 2) \o sep
             \o JoinRange(parts, sep, ((lo + hi) \div 2) + 1, hi)

\* Array.prototype.join
Join(parts, sep) == JoinRange(parts, sep, 1, Len(parts))

\* String.prototype.replace with a string pattern: the first occurrence only
Replace(s, pat, by) ==
    LET j == IndexFrom(s, pat, 1)
    IN  IF j = 0 THEN s
        ELSE SubSeq(s, 1, j - 1) \o by \o SubSeq(s, j + Len(pat), Len(s))

RECURSIVE ToString(_)
\* a non-negative integer in a template literal: its decimal digits
ToString(n) ==
    IF n < 10 THEN << DigitChars[n + 1] >>
    ELSE ToString(n \div 10) \o << DigitChars[(n % 10) + 1] >>

RECURSIVE DigitRuns(_, _, _)
\* the matches of /\d+/g from position i on: the maximal runs of digits, in order
DigitRuns(s, i, cur) ==
    IF i > Len(s) THEN (IF cur = << >> THEN << >> ELSE << cur >>)
    ELSE IF IsDigit(s[i]) THEN DigitRuns(s, i + 1, Append(cur, s[i]))
    ELSE (IF cur = << >> THEN << >> ELSE << cur >>) \o DigitRuns(s, i + 1, << >>)

\* evString.match(/\d+/g): null when nothing matches, else the array of matches
Match(s) ==
    LET runs == DigitRuns(s, 1, << >>)
    IN  [null |-> runs = << >>, arr |-> runs]

RECURSIVE ParseInt(_)
\* parseInt of a string of decimal digits
ParseInt(num) ==
    IF num = << >> THEN 0
    ELSE 10 * ParseInt(SubSeq(num, 1, Len(num) - 1)) + DigitVal(num[Len(num)])

RECURSIVE Reduce(_)
\* numbers.reduce((sum, num) => sum + parseInt(num), 0)
Reduce(numbers) ==
    IF numbers = << >> THEN 0
    ELSE ParseInt(numbers[1]) + Reduce(Tail(numbers))

\* the abrupt completion of a call: a property of null or undefined was read
TypeError == [exception |-> "TypeError"]

IsException(r) == "exception" \in DOMAIN r

\* the normal completion of a call that returns a plain value
Return(v) == [value |-> v]

\* ret before any call has returned
NoReturn == [pending |-> TRUE]

(***************************************************************************)
(* utils/pokemon-utils: validateEVSpread                                   *)
(***************************************************************************)

\* mutant: every single digit is a match (/\d/g instead of /\d+/g)
validateEVSpread_SingleDigits(evString_) ==
    IF evString_ = << >> THEN Return(FALSE)
    ELSE LET numbers == [i \in 1..Len(SelectSeq(evString_, IsDigit)) |->
                            << SelectSeq(evString_, IsDigit)[i] >>]
         IN  IF numbers = << >> THEN Return(FALSE)
             ELSE Return(Reduce(numbers) = 506)

validateEVSpread(evString_) ==
    IF evString_ = << >> THEN Return(FALSE)
    ELSE LET numbers == Match(evString_)
         IN  IF numbers.null THEN Return(FALSE)
             ELSE Return(Reduce(numbers.arr) = 506)

(***************************************************************************)
(* Inputs of validateEVSpread: spreads put together from these pieces      *)
(***************************************************************************)

MaxTokens == 3

SpreadTokens ==
    { <<"2","5","2"," ","A","t","k"," ","/"," ">>,
      <<"2"," ","H","P"," ","/"," ">>,
      <<"4"," ","H","P"," ","/"," ">>,
      <<"2","5","2"," ","S","p","e">>,
      <<"2","4","8"," ","H","P"," ","/"," ">>,
      <<"8"," ","D","e","f"," ","/"," ">>,
      <<"6"," ","D","e","f"," ","/"," ">>,
      <<"5","0">>,
      <<"6">>,
      <<"A","t","k">> }

InitEV ==
    /\ harness = "ev"
    /\ pc = "compose"
    /\ call = "none"
    /\ steps = 0
    /\ evString = << >>
    /\ entryLines = << >>
    /\ slots = << >>
    /\ arg = << >>
    /\ ret = NoReturn
    /\ scan = << >>

\* the caller writes one more piece of the spread
AppendToken ==
    /\ harness = "ev"
    /\ pc = "compose"
    /\ steps < MaxTokens
    /\ \E t \in SpreadTokens : evString' = evString \o t
    /\ steps' = steps + 1
    /\ UNCHANGED <<harness, scan, pc, call, entryLines, slots, arg, ret>>

CallValidateEVSpread ==
    /\ harness = "ev"
    /\ pc = "compose"
    /\ arg' = evString
    /\ ret' = validateEVSpread(evString)
    /\ call' = "validateEVSpread"
    /\ pc' = "returned"
    /\ UNCHANGED <<harness, scan, steps, evString, entryLines, slots>>

NextEV == AppendToken \/ CallValidateEVSpread

SpecEV == InitEV /\ [][NextEV]_vars

(***************************************************************************)
(* C8: validateEVSpread is label-agnostic                                  *)
(***************************************************************************)

RECURSIVE Pow10(_)
Pow10(k) == IF k = 0 THEN 1 ELSE 10 * Pow10(k - 1)

\* the number of digits that follow position i without interruption
DigitsAfter(s, i) ==
    Cardinality({j \in (i + 1)..Len(s) : \A k \in (i + 1)..j : IsDigit(s[k])})

RECURSIVE PlaceValueSum(_, _)
\* every digit weighted by its decimal place inside its own run of digits
PlaceValueSum(s, i) ==
    IF i > Len(s) THEN 0
    ELSE (IF IsDigit(s[i]) THEN DigitVal(s[i]) * Pow10(DigitsAfter(s, i)) ELSE 0)
         + PlaceValueSum(s, i + 1)

HasDigit(s) == \E i \in 1..Len(s) : IsDigit(s[i])

Spread_252_2_252 ==
    <<"2","5","2"," ","A","t","k"," ","/"," ","2"," ","H","P"," ","/"," ","2","5","2"," ","S","p","e">>

Spread_252_4_252 ==
    <<"2","5","2"," ","A","t","k"," ","/"," ","4"," ","H","P"," ","/"," ","2","5","2"," ","S","p","e">>

Spread_248_8_252 ==
    <<"2","4","8"," ","H","P"," ","/"," ","8"," ","D","e","f"," ","/"," ","2","5","2"," ","S","p","e">>

AbilityPrefix == <<"A","b","i","l","i","t","y",":">>

EVsPrefix == <<"E","V","s",":">>

NatureWord == <<"N","a","t","u","r","e">>

ErrTooShort ==
    <<"P","o","k","e","m","o","n"," ","e","n","t","r","y"," ","t","o","o"," ","s","h","o","r","t">>

ErrMissingItem == <<"M","i","s","s","i","n","g"," ","i","t","e","m"," ","(","@",")">>

ErrMissingAbility == <<"M","i","s","s","i","n","g"," ","a","b","i","l","i","t","y">>

ErrMissingEVs == <<"M","i","s","s","i","n","g"," ","E","V","s">>

ErrMissingNature == <<"M","i","s","s","i","n","g"," ","n","a","t","u","r","e">>

ErrMissingMoves == <<"M","i","s","s","i","n","g"," ","m","o","v","e","s">>

\* `Invalid EV spread: ${evSpread}`
ErrInvalidEV(evSpread) ==
    <<"I","n","v","a","l","i","d"," ","E","V"," ","s","p","r","e","a","d",":"," ">> \o evSpread

\* `Expected 4 moves, found ${moves.length}`
ErrMoveCount(n) ==
    <<"E","x","p","e","c","t","e","d"," ","4"," ","m","o","v","e","s",","," ","f","o","u","n","d"," ">>
        \o ToString(n)

Invalid(error) == [valid |-> FALSE, error |-> error]

\* pokemonText.split('\n').map(line => line.trim()).filter(line => line)
TrimmedLines(text) ==
    LET raw == Split(text, <<"\n">>)
        trimmed == [i \in 1..Len(raw) |-> Trim(raw[i])]
    IN  SelectSeq(trimmed, LAMBDA line : line # << >>)

\* arr[i] (0-based): undefined past the end
At(arr, i) ==
    IF i + 1 \in 1..Len(arr) THEN [undefined |-> FALSE, v |-> arr[i + 1]]
    ELSE [undefined |-> TRUE]

\* lines.find(line => line.startsWith('EVs:')): the first such line, or undefined
FindEVLine(lines) ==
    LET hits == SelectSeq(lines, LAMBDA line : StartsWith(line, EVsPrefix))
    IN  At(hits, 0)

IsMoveLine(line) == StartsWith(line, <<"-">>)

\* mutant: the nature check is made before the ability check
PokemonChecks_NatureFirst(pokemonText, lines, hasItem) ==
    LET hasAbility == \E i \in 1..Len(lines) : StartsWith(lines[i], AbilityPrefix)
        hasEVs == \E i \in 1..Len(lines) : StartsWith(lines[i], EVsPrefix)
        hasNature == \E i \in 1..Len(lines) : Includes(lines[i], NatureWord)
        hasMoves == \E i \in 1..Len(lines) : IsMoveLine(lines[i])
        evLine == FindEVLine(lines)
        evSpread == Trim(Replace(evLine.v, EVsPrefix, << >>))
        evOk == IF evLine.undefined THEN Return(TRUE) ELSE validateEVSpread(evSpread)
        moves == SelectSeq(lines, IsMoveLine)
    IN  IF ~hasItem THEN Invalid(ErrMissingItem)
        ELSE IF ~hasNature THEN Invalid(ErrMissingNature)
        ELSE IF ~hasAbility THEN Invalid(ErrMissingAbility)
        ELSE IF ~hasEVs THEN Invalid(ErrMissingEVs)
        ELSE IF ~hasMoves THEN Invalid(ErrMissingMoves)
        ELSE IF IsException(evOk) THEN evOk
        ELSE IF ~evOk.value THEN Invalid(ErrInvalidEV(evSpread))
        ELSE IF Len(moves) # 4 THEN Invalid(ErrMoveCount(Len(moves)))
        ELSE [valid |-> TRUE, pokemon |-> pokemonText]

\* the checks after the length gate, in the order of the return statements
PokemonChecks(pokemonText, lines, hasItem) ==
    LET hasAbility == \E i \in 1..Len(lines) : StartsWith(lines[i], AbilityPrefix)
        hasEVs == \E i \in 1..Len(lines) : StartsWith(lines[i], EVsPrefix)
        hasNature == \E i \in 1..Len(lines) : Includes(lines[i], NatureWord)
        hasMoves == \E i \in 1..Len(lines) : IsMoveLine(lines[i])
        evLine == FindEVLine(lines)
        evSpread == Trim(Replace(evLine.v, EVsPrefix, << >>))
        evOk == IF evLine.undefined THEN Return(TRUE) ELSE validateEVSpread(evSpread)
        moves == SelectSeq(lines, IsMoveLine)
    IN  IF ~hasItem THEN Invalid(ErrMissingItem)
        ELSE IF ~hasAbility THEN Invalid(ErrMissingAbility)
        ELSE IF ~hasEVs THEN Invalid(ErrMissingEVs)
        ELSE IF ~hasNature THEN Invalid(ErrMissingNature)
        ELSE IF ~hasMoves THEN Invalid(ErrMissingMoves)
        ELSE IF IsException(evOk) THEN evOk
        ELSE IF ~evOk.value THEN Invalid(ErrInvalidEV(evSpread))
        ELSE IF Len(moves) # 4 THEN Invalid(ErrMoveCount(Len(moves)))
        ELSE [valid |-> TRUE, pokemon |-> pokemonText]

\* mutant: the '@' is looked for in every line (lines.some) instead of lines[0]
validatePokemon_ItemAnywhere(pokemonText) ==
    LET lines == TrimmedLines(pokemonText)
    IN  IF Len(lines) < 6 THEN Invalid(ErrTooShort)
        ELSE PokemonChecks(pokemonText, lines,
                           \E i \in 1..Len(lines) : Includes(lines[i], <<"@">>))

\* mutant: no length gate before lines[0] is read
validatePokemon_NoLengthGate(pokemonText) ==
    LET lines == TrimmedLines(pokemonText)
    IN  IF At(lines, 0).undefined THEN TypeError
        ELSE PokemonChecks(pokemonText, lines, Includes(lines[1], <<"@">>))

\* lines[0].includes('@') throws a TypeError when lines[0] is undefined
validatePokemon(pokemonText) ==
    LET lines == TrimmedLines(pokemonText)
    IN  IF Len(lines) < 6 THEN Invalid(ErrTooShort)
        ELSE IF At(lines, 0).undefined THEN TypeError
        ELSE PokemonChecks(pokemonText, lines, Includes(lines[1], <<"@">>))

(***************************************************************************)
(* Inputs of validatePokemon: the test's valid entry with lines replaced   *)
(***************************************************************************)

MaxLineEdits == 2

HeaderLine ==
    <<"F","l","y","g","o","n"," ","@"," ","L","o","a","d","e","d"," ","D","i","c","e"," "," ">>

AbilityLine == <<"A","b","i","l","i","t","y",":"," ","L","e","v","i","t","a","t","e"," "," ">>

TeraLine == <<"T","e","r","a"," ","T","y","p","e",":"," ","F","i","r","e"," "," ">>

EVLine506 ==
    <<"E","V","s",":"," ","2","4","8"," ","A","t","k"," ","/"," ","6"," ","S","p","D"," ","/"," ","2","5","2"," ","S","p","e"," "," ">>

EVLine508 ==
    <<"E","V","s",":"," ","2","5","2"," ","A","t","k"," ","/"," ","4"," ","S","p","D"," ","/"," ","2","5","2"," ","S","p","e"," "," ">>

EVLineNoDigits == <<"E","V","s",":"," ","m","a","x">>

NatureLine == <<"J","o","l","l","y"," ","N","a","t","u","r","e"," "," ">>

MoveLine1 == <<"-"," ","D","r","a","g","o","n"," ","D","a","n","c","e"," "," ">>

MoveLine2 == <<"-"," ","E","a","r","t","h","q","u","a","k","e"," "," ">>

MoveLine3 == <<"-"," ","S","c","a","l","e"," ","S","h","o","t"," "," ">>

MoveLine4 == <<"-"," ","F","i","r","e"," ","P","u","n","c","h">>

\* const validPokemon of the test, line by line
ValidPokemonLines ==
    << HeaderLine, AbilityLine, TeraLine, EVLine506, NatureLine,
       MoveLine1, MoveLine2, MoveLine3, MoveLine4 >>

\* const invalidPokemon of the test, line by line
InvalidPokemonLines == << HeaderLine, AbilityLine, MoveLine1 >>

\* the empty string: one empty line
EmptyTextLines == << << >> >>

PokemonBases == { ValidPokemonLines, InvalidPokemonLines, EmptyTextLines }

LineVocabulary ==
    { << >>, HeaderLine, AbilityLine, TeraLine, EVLine508, EVLineNoDigits,
      NatureLine, MoveLine4 }

InitPokemon ==
    /\ harness = "pokemon"
    /\ pc = "compose"
    /\ call = "none"
    /\ steps = 0
    /\ evString = << >>
    /\ entryLines \in PokemonBases
    /\ slots = << >>
    /\ arg = << >>
    /\ ret = NoReturn
    /\ scan = << >>

\* the caller writes another line in place of line i
EditLine ==
    /\ harness = "pokemon"
    /\ pc = "compose"
    /\ steps < MaxLineEdits
    /\ \E i \in 1..Len(entryLines), v \in LineVocabulary :
           entryLines' = [entryLines EXCEPT ![i] = v]
    /\ steps' = steps + 1
    /\ UNCHANGED <<harness, scan, pc, call, evString, slots, arg, ret>>

CallValidatePokemon ==
    /\ harness = "pokemon"
    /\ pc = "compose"
    /\ arg' = Join(entryLines, <<"\n">>)
    /\ ret' = validatePokemon(arg')
    /\ call' = "validatePokemon"
    /\ pc' = "returned"
    /\ UNCHANGED <<harness, scan, steps, evString, entryLines, slots>>

NextPokemon == EditLine \/ CallValidatePokemon

SpecPokemon == InitPokemon /\ [][NextPokemon]_vars

(***************************************************************************)
(* C1, C9: what validatePokemon accepts, and which reason it gives         *)
(***************************************************************************)

\* the positions of the lines that start with prefix p
LinesStarting(lines, p) == {i \in 1..Len(lines) : StartsWith(lines[i], p)}

\* the first line that starts with "EVs:" (there is one)
FirstEVLine(lines) ==
    lines[CHOOSE i \in LinesStarting(lines, EVsPrefix) :
              \A j \in LinesStarting(lines, EVsPrefix) : i <= j]

\* every condition of C1 but the one on the item delimiter, on the entry's
\* trimmed non-empty lines
C1_OtherConditions(lines) ==
    /\ Len(lines) >= 6
    /\ LinesStarting(lines, AbilityPrefix) # {}
    /\ LinesStarting(lines, EVsPrefix) # {}
    /\ \E i \in 1..Len(lines) : Includes(lines[i], NatureWord)
    /\ Cardinality(LinesStarting(lines, <<"-">>)) = 4
    /\ PlaceValueSum(FirstEVLine(lines), 1) = 506

\* C1 as stated: validatePokemon(E) is valid iff E has at least 6 trimmed
\* non-empty lines, contains '@' (anywhere), has an "Ability:" line, an "EVs:"
\* line, a line containing "Nature", exactly 4 lines starting with '-', and an
\* EV line whose digit tokens add up to 506.
C1_ValidIffContainsItem ==
    (pc = "returned" /\ call = "validatePokemon") =>
        (ret.valid <=> (Includes(arg, <<"@">>) /\ C1_OtherConditions(TrimmedLines(arg))))

\* C1 amended: as above, but the '@' must be in the first trimmed non-empty line.
C1_ValidIffHeaderHasItem ==
    (pc = "returned" /\ call = "validatePokemon") =>
        LET lines == TrimmedLines(arg)
        IN  /\ ret.valid <=> /\ C1_OtherConditions(lines)
                             /\ Includes(lines[1], <<"@">>)
            /\ ret.valid => ret = [valid |-> TRUE, pokemon |-> arg]

\* an entry that is complete but carries its '@' on a later line is rejected
C1_Witness ==
    /\ pc = "returned" /\ call = "validatePokemon"
    /\ C1_OtherConditions(TrimmedLines(arg))
    /\ Includes(arg, <<"@">>)
    /\ ~Includes(TrimmedLines(arg)[1], <<"@">>)
    /\ ret = Invalid(ErrMissingItem)

\* the text of the EV line after "EVs:", as the reason echoes it
C9_Spread(lines) ==
    Trim(SubSeq(FirstEVLine(lines), Len(EVsPrefix) + 1, Len(FirstEVLine(lines))))

\* the checks of validatePokemon that an entry with these trimmed non-empty lines
\* violates, numbered in the claimed order: 1 too short, 2 item, 3 ability,
\* 4 EV line, 5 nature, 6 moves, 7 EV sum, 8 move count
C9_Violated(lines) ==
    {k \in 1..8 :
        \/ k = 1 /\ Len(lines) < 6
        \/ k = 2 /\ (lines = << >> \/ ~Includes(Head(lines), <<"@">>))
        \/ k = 3 /\ LinesStarting(lines, AbilityPrefix) = {}
        \/ k = 4 /\ LinesStarting(lines, EVsPrefix) = {}
        \/ k = 5 /\ ~\E i \in 1..Len(lines) : Includes(lines[i], NatureWord)
        \/ k = 6 /\ LinesStarting(lines, <<"-">>) = {}
        \/ k = 7 /\ LinesStarting(lines, EVsPrefix) # {}
                 /\ PlaceValueSum(FirstEVLine(lines), 1) # 506
        \/ k = 8 /\ Cardinality(LinesStarting(lines, <<"-">>)) # 4}

C9_Reason(lines, k) ==
    CASE k = 1 -> ErrTooShort
      [] k = 2 -> ErrMissingItem
      [] k = 3 -> ErrMissingAbility
      [] k = 4 -> ErrMissingEVs
      [] k = 5 -> ErrMissingNature
      [] k = 6 -> ErrMissingMoves
      [] k = 7 -> ErrInvalidEV(C9_Spread(lines))
      [] k = 8 -> ErrMoveCount(Cardinality(LinesStarting(lines, <<"-">>)))

\* C9: validatePokemon returns the reason of the earliest violated check in the
\* order too-short, item, ability, EV line, nature, moves, EV sum, move count,
\* and only that one; an entry (long enough, with its item) that misses both
\* the ability and the nature line reports the ability failure.
C9_FirstFailureWins ==
    (pc = "returned" /\ call = "validatePokemon") =>
        LET lines == TrimmedLines(arg)
            bad == C9_Violated(lines)
        IN  /\ bad = {} => ret.valid
            /\ bad # {} =>
                   ret = Invalid(C9_Reason(lines, CHOOSE k \in bad : \A m \in bad : k <= m))
            /\ ({3, 5} \subseteq bad /\ bad \cap {1, 2} = {}) =>
                   ret = Invalid(ErrMissingAbility)

C9_Witness ==
    /\ pc = "returned" /\ call = "validatePokemon"
    /\ {3, 5} \subseteq C9_Violated(TrimmedLines(arg))
    /\ ret = Invalid(ErrMissingAbility)

(***************************************************************************)
(* utils/pokemon-utils: validateTeam                                       *)
(***************************************************************************)

\* `Expected 6 Pokemon, found ${pokemonEntries.length}`
ErrTeamCount(n) ==
    <<"E","x","p","e","c","t","e","d"," ","6"," ","P","o","k","e","m","o","n",","," ","f","o","u","n","d"," ">>
        \o ToString(n)

\* `Pokemon ${i + 1}: ${result.error}`
ErrPokemon(index, error) ==
    <<"P","o","k","e","m","o","n"," ">> \o ToString(index) \o <<":"," ">> \o error

\* { index: i + 1, ...result }
WithIndex(index, result) ==
    IF result.valid
    THEN [index |-> index, valid |-> TRUE, pokemon |-> result.pokemon]
    ELSE [index |-> index, valid |-> FALSE, error |-> result.error]

\* teamText.split('\n\n').filter(entry => entry.trim())
PokemonEntries(teamText) ==
    SelectSeq(Split(teamText, <<"\n", "\n">>), LAMBDA entry : Trim(entry) # << >>)

RECURSIVE ValidateEntries_SkipsLast(_, _, _)
\* mutant: the loop ends one entry early (i < pokemonEntries.length - 1)
ValidateEntries_SkipsLast(pokemonEntries, index, validation_results) ==
    IF index > Len(pokemonEntries) - 1
    THEN [valid |-> TRUE, pokemon_count |-> Len(pokemonEntries),
          details |-> validation_results]
    ELSE LET result == validatePokemon(pokemonEntries[index])
         IN  IF IsException(result) THEN result
             ELSE IF ~result.valid
             THEN [valid |-> FALSE, error |-> ErrPokemon(index, result.error),
                   details |-> Append(validation_results, WithIndex(index, result))]
             ELSE ValidateEntries_SkipsLast(pokemonEntries, index + 1,
                                            Append(validation_results, WithIndex(index, result)))

RECURSIVE ValidateEntries_ReportsLast(_, _, _)
\* mutant: the loop does not return at the first failing entry; the reason is
\* overwritten by every later failure
ValidateEntries_ReportsLast(pokemonEntries, index, validation_results) ==
    IF index > Len(pokemonEntries)
    THEN LET bad == {k \in 1..Len(validation_results) : ~validation_results[k].valid}
             last == CHOOSE k \in bad : \A m \in bad : m <= k
         IN  IF bad = {}
             THEN [valid |-> TRUE, pokemon_count |-> Len(pokemonEntries),
                   details |-> validation_results]
             ELSE [valid |-> FALSE,
                   error |-> ErrPokemon(last, validation_results[last].error),
                   details |-> validation_results]
    ELSE LET result == validatePokemon(pokemonEntries[index])
         IN  IF IsException(result) THEN result
             ELSE ValidateEntries_ReportsLast(pokemonEntries, index + 1,
                                              Append(validation_results, WithIndex(index, result)))

RECURSIVE ValidateEntries(_, _, _)
\* the for loop of validateTeam from entry index (1-based) on
ValidateEntries(pokemonEntries, index, validation_results) ==
    IF index > Len(pokemonEntries)
    THEN [valid |-> TRUE, pokemon_count |-> Len(pokemonEntries),
          details |-> validation_results]
    ELSE LET result == validatePokemon(pokemonEntries[index])
         IN  IF IsException(result) THEN result
             ELSE IF ~result.valid
             THEN [valid |-> FALSE, error |-> ErrPokemon(index, result.error),
                   details |-> Append(validation_results, WithIndex(index, result))]
             ELSE ValidateEntries(pokemonEntries, index + 1,
                                  Append(validation_results, WithIndex(index, result)))

\* mutant: the candidates that are empty after trimming are not discarded
validateTeam_CountsBlank(teamText) ==
    LET pokemonEntries == Split(teamText, <<"\n", "\n">>)
    IN  IF Len(pokemonEntries) # 6
        THEN [valid |-> FALSE, error |-> ErrTeamCount(Len(pokemonEntries))]
        ELSE ValidateEntries(pokemonEntries, 1, << >>)

validateTeam(teamText) ==
    LET pokemonEntries == PokemonEntries(teamText)
    IN  IF Len(pokemonEntries) # 6
        THEN [valid |-> FALSE, error |-> ErrTeamCount(Len(pokemonEntries))]
        ELSE ValidateEntries(pokemonEntries, 1, << >>)

(***************************************************************************)
(* server: validateAndFixTeam, generateTeamWithAI                          *)
(***************************************************************************)

\* let pokemonCount = 0; let currentPokemon = []; let validatedTeam = [];
ScanStart == [currentPokemon |-> << >>, validatedTeam |-> << >>, pokemonCount |-> 0]

\* validatedTeam.push(currentPokemon.join('\n')); pokemonCount++
Flushed(st) ==
    [st EXCEPT !.validatedTeam = Append(@, Join(st.currentPokemon, <<"\n">>)),
               !.pokemonCount = @ + 1]

\* mutant: a blank line flushes whether or not lines were collected (the test
\* currentPokemon.length > 0 is missing)
ScanLine_BlankAlwaysFlushes(st, rawLine) ==
    LET line == Trim(rawLine)
    IN  IF line = << >>
        THEN [Flushed(st) EXCEPT !.currentPokemon = << >>]
        ELSE IF Includes(line, <<"@">>)
        THEN (IF st.currentPokemon # << >>
              THEN [Flushed(st) EXCEPT !.currentPokemon = << line >>]
              ELSE [st EXCEPT !.currentPokemon = << line >>])
        ELSE [st EXCEPT !.currentPokemon = Append(@, line)]

\* mutant: a line with '@' is collected like any other line (no flush, no new
\* accumulator)
ScanLine_NoItemFlush(st, rawLine) ==
    LET line == Trim(rawLine)
    IN  IF line = << >>
        THEN (IF st.currentPokemon # << >>
              THEN [Flushed(st) EXCEPT !.currentPokemon = << >>]
              ELSE st)
        ELSE [st EXCEPT !.currentPokemon = Append(@, line)]

\* mutant: instead of line.trim(), one trailing white-space character at most
\* is taken off the line
ScanLine_StripsOneSpace(st, rawLine) ==
    LET line == IF rawLine # << >> /\ IsWhite(rawLine[Len(rawLine)])
                THEN SubSeq(rawLine, 1, Len(rawLine) - 1)
                ELSE rawLine
    IN  IF line = << >>
        THEN (IF st.currentPokemon # << >>
              THEN [Flushed(st) EXCEPT !.currentPokemon = << >>]
              ELSE st)
        ELSE IF Includes(line, <<"@">>)
        THEN (IF st.currentPokemon # << >>
              THEN [Flushed(st) EXCEPT !.currentPokemon = << line >>]
              ELSE [st EXCEPT !.currentPokemon = << line >>])
        ELSE [st EXCEPT !.currentPokemon = Append(@, line)]

\* one iteration of the for loop over the lines
ScanLine(st, rawLine) ==
    LET line == Trim(rawLine)
    IN  IF line = << >>
        THEN (IF st.currentPokemon # << >>
              THEN [Flushed(st) EXCEPT !.currentPokemon = << >>]
              ELSE st)
        ELSE IF Includes(line, <<"@">>)
        THEN (IF st.currentPokemon # << >>
              THEN [Flushed(st) EXCEPT !.currentPokemon = << line >>]
              ELSE [st EXCEPT !.currentPokemon = << line >>])
        ELSE [st EXCEPT !.currentPokemon = Append(@, line)]

RECURSIVE ScanLines(_, _, _, _)
\* the iterations for lines[lo..hi], in order: the first half of the range is run
\* to its end (its count is read) before the second half starts from its result
ScanLines(st, lines, lo, hi) ==
    IF lo > hi THEN st
    ELSE IF lo = hi THEN ScanLine(st, lines[lo])
    ELSE LET half == ScanLines(st, lines, lo, (lo + hi) \div 2)
         IN  CASE half.pokemonCount >= 0 ->
                      ScanLines(half, lines, ((lo + hi) \div 2) + 1, hi)

\* mutant: the flush after the loop is done whether or not lines are left (the
\* test currentPokemon.length > 0 is missing)
LastFlush_Always(st) == Flushed(st)

\* if (currentPokemon.length > 0) { validatedTeam.push(...); pokemonCount++ }
\* after the loop
LastFlush(st) == IF st.currentPokemon # << >> THEN Flushed(st) ELSE st

\* mutant: the entry still being collected at the end of the input is not flushed
Resegment_NoLastFlush(team) ==
    LET lines == Split(team, <<"\n">>)
        scanned == ScanLines(ScanStart, lines, 1, Len(lines))
    IN  Join(scanned.validatedTeam, <<"\n", "\n">>)

\* the re-segmentation of validateAndFixTeam: the loop, the last flush, the join
Resegment(team) ==
    LET lines == Split(team, <<"\n">>)
        scanned == ScanLines(ScanStart, lines, 1, Len(lines))
        final == LastFlush(scanned)
    IN  Join(final.validatedTeam, <<"\n", "\n">>)

\* mutant: the early return on a valid team is missing
validateAndFixTeam_AlwaysResegments(team) ==
    LET validation == validateTeam(team)
    IN  IF IsException(validation) THEN validation
        ELSE Return(Resegment(team))

validateAndFixTeam(team) ==
    LET validation == validateTeam(team)
    IN  IF IsException(validation) THEN validation
        ELSE IF validation.valid THEN Return(team)
        ELSE Return(Resegment(team))

\* const team = completion.choices[0].message.content.trim();
\* return validateAndFixTeam(team, format)
generateTeamWithAI(content) == validateAndFixTeam(Trim(content))

(***************************************************************************)
(* Inputs of validateTeam and validateAndFixTeam: a few teams, with        *)
(* entries and separators replaced                                          *)
(***************************************************************************)

MaxTeamEdits == 1

\* const validPokemon of the test
ValidEntry == Join(ValidPokemonLines, <<"\n">>)

\* the entry the system prompt shows as its example: its EVs add up to 508
Entry508 ==
    Join(<< HeaderLine, AbilityLine, TeraLine, EVLine508, NatureLine,
            MoveLine1, MoveLine2, MoveLine3, MoveLine4 >>, <<"\n">>)

\* const invalidPokemon of the test
InvalidPokemon == Join(InvalidPokemonLines, <<"\n">>)

\* the second entry of const sampleTeam of the test
GalvantulaLines ==
    << <<"G","a","l","v","a","n","t","u","l","a"," ","@"," ","F","o","c","u","s"," ","S","a","s","h"," "," ">>,
       <<"A","b","i","l","i","t","y",":"," ","C","o","m","p","o","u","n","d"," ","E","y","e","s"," "," ">>,
       <<"T","e","r","a"," ","T","y","p","e",":"," ","G","h","o","s","t"," "," ">>,
       <<"E","V","s",":"," ","2"," ","H","P"," ","/"," ","2","5","2"," ","S","p","A"," ","/"," ","2","5","2"," ","S","p","e"," "," ">>,
       <<"T","i","m","i","d"," ","N","a","t","u","r","e"," "," ">>,
       <<"I","V","s",":"," ","0"," ","A","t","k"," "," ">>,
       <<"-"," ","S","t","i","c","k","y"," ","W","e","b"," "," ">>,
       <<"-"," ","T","h","u","n","d","e","r"," "," ">>,
       <<"-"," ","B","u","g"," ","B","u","z","z"," "," ">>,
       <<"-"," ","T","h","u","n","d","e","r"," ","W","a","v","e">> >>

GalvantulaEntry == Join(GalvantulaLines, <<"\n">>)

BlankLineSep == <<"\n", "\n">>

EntryVocabulary == { ValidEntry, Entry508, InvalidPokemon, << >> }

SeparatorVocabulary == { BlankLineSep, <<"\n">>, <<"\n", "\n", "\n">>, <<"\n", " ", "\n">> }

Slot(entry, sep) == [entry |-> entry, sep |-> sep]

\* six well-formed entries, a blank line between them
SixValid ==
    << Slot(ValidEntry, BlankLineSep), Slot(ValidEntry, BlankLineSep),
       Slot(ValidEntry, BlankLineSep), Slot(ValidEntry, BlankLineSep),
       Slot(ValidEntry, BlankLineSep), Slot(ValidEntry, << >>) >>

\* the same with the third entry's EVs adding up to 508
ThirdEntry508 == [SixValid EXCEPT ![3].entry = Entry508]

\* six well-formed entries whose separation has drifted: no blank line, two
\* blank lines, a line of white space, one blank line
SixDrifted ==
    << Slot(ValidEntry, <<"\n">>), Slot(GalvantulaEntry, <<"\n", "\n", "\n">>),
       Slot(ValidEntry, <<"\n", " ", "\n">>), Slot(GalvantulaEntry, <<"\n">>),
       Slot(ValidEntry, BlankLineSep), Slot(GalvantulaEntry, << >>) >>

\* const sampleTeam of the test: two entries only
TwoPokemon == << Slot(ValidEntry, BlankLineSep), Slot(ValidEntry, << >>) >>

\* nothing but white space
BlankOnly == << Slot(<< >>, <<"\n", " ", "\n">>) >>

\* the empty string
EmptyText == << Slot(<< >>, << >>) >>

TeamBases == { SixValid, ThirdEntry508, SixDrifted, TwoPokemon, BlankOnly, EmptyText }

\* the text the slots spell
Content(ss) == Join([i \in 1..Len(ss) |-> ss[i].entry \o ss[i].sep], << >>)

InitTeam ==
    /\ harness = "team"
    /\ pc = "compose"
    /\ call = "none"
    /\ steps = 0
    /\ evString = << >>
    /\ entryLines = << >>
    /\ slots \in TeamBases
    /\ arg = << >>
    /\ ret = NoReturn
    /\ scan = << >>

\* another entry is written in place of entry i
EditEntry ==
    /\ harness = "team"
    /\ pc = "compose"
    /\ steps < MaxTeamEdits
    /\ \E i \in 1..Len(slots), v \in EntryVocabulary :
           slots' = [slots EXCEPT ![i].entry = v]
    /\ steps' = steps + 1
    /\ UNCHANGED <<harness, scan, pc, call, evString, entryLines, arg, ret>>

\* another separator is written after entry i
EditSeparator ==
    /\ harness = "team"
    /\ pc = "compose"
    /\ steps < MaxTeamEdits
    /\ \E i \in 1..Len(slots), v \in SeparatorVocabulary :
           slots' = [slots EXCEPT ![i].sep = v]
    /\ steps' = steps + 1
    /\ UNCHANGED <<harness, scan, pc, call, evString, entryLines, arg, ret>>

CallValidateTeam ==
    /\ harness = "team"
    /\ pc = "compose"
    /\ arg' = Content(slots)
    /\ ret' = validateTeam(arg')
    /\ call' = "validateTeam"
    /\ pc' = "returned"
    /\ UNCHANGED <<harness, scan, steps, evString, entryLines, slots>>

CallValidateAndFixTeam ==
    /\ harness = "team"
    /\ pc = "compose"
    /\ arg' = Content(slots)
    /\ ret' = validateAndFixTeam(arg')
    /\ call' = "validateAndFixTeam"
    /\ pc' = "returned"
    /\ UNCHANGED <<harness, scan, steps, evString, entryLines, slots>>

\* what validateAndFixTeam returned is handed to validateAndFixTeam again
CallValidateAndFixTeamAgain ==
    /\ harness = "team"
    /\ pc = "returned"
    /\ call = "validateAndFixTeam"
    /\ ~IsException(ret)
    /\ arg' = ret.value
    /\ ret' = validateAndFixTeam(arg')
    /\ call' = "validateAndFixTeam again"
    /\ UNCHANGED <<harness, scan, pc, steps, evString, entryLines, slots>>

\* the model's completion is the slots' text
CallGenerateTeamWithAI ==
    /\ harness = "team"
    /\ pc = "compose"
    /\ arg' = Content(slots)
    /\ ret' = generateTeamWithAI(arg')
    /\ call' = "generateTeamWithAI"
    /\ pc' = "returned"
    /\ UNCHANGED <<harness, scan, steps, evString, entryLines, slots>>

NextTeam ==
    \/ EditEntry
    \/ EditSeparator
    \/ CallValidateTeam
    \/ CallValidateAndFixTeam
    \/ CallValidateAndFixTeamAgain
    \/ CallGenerateTeamWithAI

SpecTeam == InitTeam /\ [][NextTeam]_vars

(***************************************************************************)
(* The repair path of validateAndFixTeam, one iteration of its loop at a   *)
(* time, on texts of a few lines                                            *)
(***************************************************************************)

MaxScanLines == 5

\* lines of a completion: a header, a move, an empty line, a line of white space
ScanVocabulary == { HeaderLine, MoveLine1, << >>, <<" ">> }

\* the texts of 1..MaxScanLines lines
ScanTexts ==
    { Join(ls, <<"\n">>) :
          ls \in UNION { [1..n -> ScanVocabulary] : n \in 1..MaxScanLines } }

\* validateAndFixTeam(team) has found the team invalid and has split it into its
\* lines; pokemonCount, currentPokemon and validatedTeam are initialised
InitScan ==
    /\ harness = "scan"
    /\ pc = "scanning"
    /\ call = "validateAndFixTeam"
    /\ steps = 0
    /\ evString = << >>
    /\ entryLines = << >>
    /\ slots = << >>
    /\ arg \in ScanTexts
    /\ ~validateTeam(arg).valid
    /\ ret = NoReturn
    /\ scan = [lines |-> Split(arg, <<"\n">>), index |-> 0, st |-> ScanStart]

\* one iteration of for (let line of lines)
ScanNextLine ==
    /\ harness = "scan"
    /\ pc = "scanning"
    /\ scan.index < Len(scan.lines)
    /\ scan' = [scan EXCEPT !.index = @ + 1,
                            !.st = ScanLine(scan.st, scan.lines[scan.index + 1])]
    /\ UNCHANGED <<harness, pc, call, steps, evString, entryLines, slots, arg, ret>>

\* the loop is over: the last flush, the join and the return
ScanFinish ==
    /\ harness = "scan"
    /\ pc = "scanning"
    /\ scan.index = Len(scan.lines)
    /\ scan' = [scan EXCEPT !.st = LastFlush(scan.st)]
    /\ ret' = Return(Join(scan'.st.validatedTeam, <<"\n", "\n">>))
    /\ pc' = "returned"
    /\ UNCHANGED <<harness, call, steps, evString, entryLines, slots, arg>>

NextScan ==
    \/ ScanNextLine
    \/ ScanFinish

SpecScan == InitScan /\ [][NextScan]_vars

(***************************************************************************)
(* The whole core: any of the callers                                      *)
(***************************************************************************)

Init == InitEV \/ InitPokemon \/ InitTeam \/ InitScan

Next == NextEV \/ NextPokemon \/ NextTeam \/ NextScan

Spec == Init /\ [][Next]_vars

(***************************************************************************)
(* C2, C6, C7: validateTeam                                                *)
(***************************************************************************)

\* the candidates of team text T: its pieces between blank-line separators that
\* hold something other than white space
Candidates(T) ==
    SelectSeq(Split(T, <<"\n", "\n">>),
              LAMBDA piece : \E i \in 1..Len(piece) : ~IsWhite(piece[i]))

\* the candidates that validatePokemon rejects
Failing(cands) == {i \in 1..Len(cands) : ~validatePokemon(cands[i]).valid}

\* C2: validateTeam(T) is valid iff T has exactly 6 candidates and validatePokemon
\* passes every one; a valid result carries pokemon_count = 6 and 6 details,
\* numbered 1..6 in input order, all valid.
C2_TeamValidIff ==
    (pc = "returned" /\ call = "validateTeam") =>
        LET cands == Candidates(arg)
        IN  /\ ret.valid <=> (Len(cands) = 6 /\ Failing(cands) = {})
            /\ ret.valid =>
                   /\ ret.pokemon_count = 6
                   /\ Len(ret.details) = 6
                   /\ \A i \in 1..6 :
                          ret.details[i] = [index |-> i, valid |-> TRUE, pokemon |-> cands[i]]

C2_Witness ==
    /\ pc = "returned" /\ call = "validateTeam"
    /\ ret.valid
    /\ ret.pokemon_count = 6
    /\ Len(ret.details) = 6

Expected6Found2 ==
    <<"E","x","p","e","c","t","e","d"," ","6"," ","P","o","k","e","m","o","n",","," ","f","o","u","n","d"," ","2">>

\* C6: with a candidate count N other than 6, validateTeam returns invalid with the
\* reason "Expected 6 Pokemon, found N" and nothing else: no detail list.
C6_WrongCount ==
    (pc = "returned" /\ call = "validateTeam") =>
        LET cands == Candidates(arg)
        IN  /\ Len(cands) # 6 =>
                   ret = [valid |-> FALSE, error |-> ErrTeamCount(Len(cands))]
            /\ Len(cands) = 2 => ret.error = Expected6Found2

C6_Witness ==
    /\ pc = "returned" /\ call = "validateTeam"
    /\ Len(Candidates(arg)) = 2
    /\ ret = [valid |-> FALSE, error |-> Expected6Found2]

Pokemon3InvalidEV ==
    <<"P","o","k","e","m","o","n"," ","3",":"," ","I","n","v","a","l","i","d"," ","E","V"," ","s","p","r","e","a","d",":"," ","2","5","2"," ","A","t","k"," ","/"," ","4"," ","S","p","D"," ","/"," ","2","5","2"," ","S","p","e">>

\* C7: with 6 candidates of which some fail, validateTeam stops at the first
\* failing one, i: the reason is "Pokemon i: " and validatePokemon's reason for
\* it, and the details are exactly i results, 1..i-1 valid and the i-th failing.
C7_FirstFailingEntry ==
    (pc = "returned" /\ call = "validateTeam") =>
        LET cands == Candidates(arg)
            bad == Failing(cands)
            i == CHOOSE k \in bad : \A m \in bad : k <= m
            inner == validatePokemon(cands[i]).error
        IN  (Len(cands) = 6 /\ bad # {}) =>
                /\ ret.valid = FALSE
                /\ ret.error = <<"P","o","k","e","m","o","n"," ">> \o ToString(i)
                                   \o <<":"," ">> \o inner
                /\ Len(ret.details) = i
                /\ \A k \in 1..(i - 1) :
                       ret.details[k] = [index |-> k, valid |-> TRUE, pokemon |-> cands[k]]
                /\ ret.details[i] = [index |-> i, valid |-> FALSE, error |-> inner]
                /\ (i = 3 /\ cands[3] = Entry508) => ret.error = Pokemon3InvalidEV

\* the third entry fails, a later one fails too, and only the third is reported
C7_Witness ==
    /\ pc = "returned" /\ call = "validateTeam"
    /\ Len(Candidates(arg)) = 6
    /\ 3 \in Failing(Candidates(arg))
    /\ \E k \in 4..6 : k \in Failing(Candidates(arg))
    /\ ret.error = Pokemon3InvalidEV
    /\ Len(ret.details) = 3

(***************************************************************************)
(* C3, C4, C5: validateAndFixTeam                                          *)
(***************************************************************************)

\* the lines of a text that hold something other than white space
NonBlankLines(T) ==
    SelectSeq(Split(T, <<"\n">>), LAMBDA line : \E i \in 1..Len(line) : ~IsWhite(line[i]))

\* how often each member of a sequence occurs in it
Multiset(seq) ==
    [x \in {seq[i] : i \in 1..Len(seq)} |-> Cardinality({i \in 1..Len(seq) : seq[i] = x})]

\* C3: every Pokemon entry of the text that the generate-team path returns has an
\* EV line, and the numbers of its EV lines add up to exactly 506.
C3_EVTotalGuaranteed ==
    (pc = "returned" /\ call = "generateTeamWithAI") =>
        \A e \in {Candidates(ret.value)[i] : i \in 1..Len(Candidates(ret.value))} :
            LET lines == TrimmedLines(e)
            IN  /\ LinesStarting(lines, EVsPrefix) # {}
                /\ \A i \in LinesStarting(lines, EVsPrefix) : PlaceValueSum(lines[i], 1) = 506

\* C4: on a team text that validateTeam accepts, validateAndFixTeam returns that
\* text, character for character.
C4_NoOpOnValid ==
    /\ (pc = "returned" /\ call = "validateAndFixTeam") =>
           (validateTeam(arg).valid => ret = Return(arg))
    /\ (pc = "returned" /\ call = "generateTeamWithAI") =>
           (validateTeam(Trim(arg)).valid => ret = Return(Trim(arg)))

\* a valid team whose lines end in white space comes back as it is, although
\* re-segmenting it would have changed it
C4_Witness ==
    /\ pc = "returned" /\ call = "validateAndFixTeam"
    /\ validateTeam(arg).valid
    /\ \E i \in 1..(Len(arg) - 1) : arg[i] = " " /\ arg[i + 1] = "\n"
    /\ Resegment(arg) # arg
    /\ ret = Return(arg)

\* C5 as stated: the non-blank lines of validateAndFixTeam(T) are, as a multiset,
\* the non-blank lines of T, unaltered.
C5_LinesPreserved ==
    (pc = "returned" /\ call = "validateAndFixTeam") =>
        Multiset(NonBlankLines(ret.value)) = Multiset(NonBlankLines(arg))

TrimAll(seq) == [i \in 1..Len(seq) |-> Trim(seq[i])]

\* C5 amended: the non-blank lines of validateAndFixTeam(T) are, as a multiset,
\* the non-blank lines of T with their leading and trailing white space removed
\* (and they are the lines of T as they stand when validateTeam accepts T).
C5_TrimmedLinesPreserved ==
    (pc = "returned" /\ call = "validateAndFixTeam") =>
        /\ Multiset(TrimAll(NonBlankLines(ret.value)))
               = Multiset(TrimAll(NonBlankLines(arg)))
        /\ ~validateTeam(arg).valid =>
               Multiset(NonBlankLines(ret.value)) = Multiset(TrimAll(NonBlankLines(arg)))
        /\ validateTeam(arg).valid =>
               Multiset(NonBlankLines(ret.value)) = Multiset(NonBlankLines(arg))

\* a rejected team whose lines end in white space is returned with them trimmed
C5_Witness ==
    /\ pc = "returned" /\ call = "validateAndFixTeam"
    /\ ~validateTeam(arg).valid
    /\ NonBlankLines(arg) # << >>
    /\ NonBlankLines(ret.value) = TrimAll(NonBlankLines(arg))
    /\ NonBlankLines(ret.value) # NonBlankLines(arg)

(***************************************************************************)
(* C10: no call of the core throws                                         *)
(***************************************************************************)

IsTaggedResult(r) ==
    /\ "valid" \in DOMAIN r
    /\ r.valid \in BOOLEAN
    /\ ~r.valid => ("error" \in DOMAIN r /\ r.error # << >>)

\* C10: validatePokemon, validateTeam and validateAndFixTeam return normally on
\* every text; the validators return a result tagged valid, or invalid with a
\* non-empty reason.
C10_NeverThrows ==
    pc = "returned" =>
        /\ ~IsException(ret)
        /\ call \in {"validatePokemon", "validateTeam"} => IsTaggedResult(ret)
        /\ call \in {"validateAndFixTeam", "generateTeamWithAI", "validateEVSpread"} =>
               DOMAIN ret = {"value"}

\* validatePokemon of the empty string returns its too-short result
C10_Witness ==
    /\ pc = "returned" /\ call = "validatePokemon"
    /\ arg = << >>
    /\ ret = Invalid(ErrTooShort)

(***************************************************************************)
(* C11: the repair loop as a two-state machine                             *)
(***************************************************************************)

\* the lines of the scan without their leading and trailing white space
ScanTrimmed == TrimAll(scan.lines)

\* line i holds nothing but white space
C11_Blank(t, i) == \A j \in 1..Len(t[i]) : IsWhite(t[i][j])

\* line i holds the item delimiter
C11_HasItem(t, i) == \E j \in 1..Len(t[i]) : t[i][j] = "@"

\* line i is the first line of a maximal run of non-blank lines
C11_RunStart(t, i) == ~C11_Blank(t, i) /\ (i = 1 \/ C11_Blank(t, i - 1))

\* line i comes while Accumulating and ends the entry being collected
C11_FlushAt(t, i) ==
    i > 1 /\ ~C11_Blank(t, i - 1) /\ (C11_Blank(t, i) \/ C11_HasItem(t, i))

\* line i is the first line of an entry
C11_EntryStart(t, i) ==
    ~C11_Blank(t, i) /\ (i = 1 \/ C11_Blank(t, i - 1) \/ C11_HasItem(t, i))

\* "Idle" or "Accumulating", read off the accumulator
C11_State(st) == IF st.currentPokemon = << >> THEN "Idle" ELSE "Accumulating"

\* what the machine holds after k lines (and after the end of the input when
\* ended): while lines are read it is Idle exactly at the start and after a blank
\* line, the accumulator holds the lines since the last entry start, and there
\* has been one flush per flushing event
C11_Holds(t, k, st, ended) ==
    LET live == ~ended /\ k > 0 /\ ~C11_Blank(t, k)
        s == CHOOSE i \in 1..k : C11_EntryStart(t, i)
                                   /\ \A m \in (i + 1)..k : ~C11_EntryStart(t, m)
    IN  /\ (k = 0 /\ ~ended) => st = ScanStart
        /\ ~ended => C11_State(st) = (IF live THEN "Accumulating" ELSE "Idle")
        /\ live => st.currentPokemon = SubSeq(t, s, k)
        /\ Len(st.validatedTeam) = st.pokemonCount
        /\ ~ended => st.pokemonCount = Cardinality({i \in 1..k : C11_FlushAt(t, i)})
        /\ ended =>
               st.pokemonCount =
                   Cardinality({i \in 1..k : C11_RunStart(t, i)})
                   + Cardinality({i \in 1..k : C11_HasItem(t, i) /\ ~C11_RunStart(t, i)})

\* what one line does to the machine
C11_LineStep(st, line, st2) ==
    LET blank == line = << >>
        item  == \E j \in 1..Len(line) : line[j] = "@"
        acc   == C11_State(st) = "Accumulating"
        flush == /\ st2.validatedTeam
                        = Append(st.validatedTeam, Join(st.currentPokemon, <<"\n">>))
                 /\ st2.pokemonCount = st.pokemonCount + 1
        quiet == /\ st2.validatedTeam = st.validatedTeam
                 /\ st2.pokemonCount = st.pokemonCount
    IN  CASE blank /\ ~acc -> st2 = st
          [] blank /\ acc  -> flush /\ st2.currentPokemon = << >>
          [] ~blank /\ item /\ acc -> flush /\ st2.currentPokemon = << line >>
          [] OTHER -> quiet /\ st2.currentPokemon = Append(st.currentPokemon, line)

\* what the end of the input does to the machine
C11_EndStep(st, st2) ==
    IF C11_State(st) = "Accumulating"
    THEN /\ st2.validatedTeam
                = Append(st.validatedTeam, Join(st.currentPokemon, <<"\n">>))
         /\ st2.pokemonCount = st.pokemonCount + 1
    ELSE /\ st2.validatedTeam = st.validatedTeam
         /\ st2.pokemonCount = st.pokemonCount

C11_Step ==
    harness = "scan" =>
        /\ C11_Holds(ScanTrimmed, scan.index, scan.st, pc = "returned")
        /\ C11_Holds(ScanTrimmed, scan'.index, scan'.st, pc' = "returned")
        /\ (pc' = "scanning") =>
               /\ scan'.index = scan.index + 1
               /\ C11_LineStep(scan.st, ScanTrimmed[scan'.index], scan'.st)
        /\ (pc' = "returned") =>
               /\ scan.index = Len(scan.lines)
               /\ C11_EndStep(scan.st, scan'.st)
               /\ ret' = Return(Resegment(arg))
               /\ Len(PokemonEntries(ret'.value)) = scan'.st.pokemonCount

\* C11: the repair scan starts Idle and is Idle exactly when its accumulator is
\* empty; an entry is flushed exactly on a blank line while Accumulating, on an
\* '@' line while Accumulating (which then starts the next accumulator) and at
\* the end of the input while Accumulating; a blank line while Idle changes
\* nothing and every other line is appended without a flush; so the number of
\* entries put out is the number of maximal runs of non-blank lines plus the
\* number of '@' lines that are not the first of their run.
C11_TwoStateMachine == [][C11_Step]_vars

\* an input with a blank line while Idle, an '@' line inside a run and a run that
\* the end of the input closes has been scanned to its end: two runs, three entries
C11_Witness ==
    /\ harness = "scan" /\ pc = "returned"
    /\ scan.lines = << << >>, HeaderLine, HeaderLine, <<" ">>, MoveLine1 >>
    /\ scan.st.pokemonCount = 3
    /\ Len(scan.st.validatedTeam) = 3

(***************************************************************************)
(* C12: repair of segmentation drift                                       *)
(***************************************************************************)

\* a record: validatePokemon passes it, none of its lines is blank, and only its
\* header line holds '@'
C12_IsRecord(e) ==
    LET ls == Split(e, <<"\n">>)
    IN  /\ validatePokemon(e).valid
        /\ \A i \in 1..Len(ls) :
               /\ \E j \in 1..Len(ls[i]) : ~IsWhite(ls[i][j])
               /\ (\E j \in 1..Len(ls[i]) : ls[i][j] = "@") => i = 1

\* what stands between two records: the end of the line, then any number of
\* lines that are empty or hold white space only
C12_IsGap(sep) ==
    /\ sep # << >>
    /\ sep[1] = "\n"
    /\ \A j \in 1..Len(sep) : IsWhite(sep[j])

\* the team text is six records in a row with gaps between them
C12_Drifted ==
    /\ Len(slots) = 6
    /\ \A i \in 1..6 : C12_IsRecord(slots[i].entry)
    /\ \A i \in 1..5 : C12_IsGap(slots[i].sep)
    /\ slots[6].sep = << >>

\* C12: if the team text is six records that validatePokemon passes, each with
\* '@' in its header line only and no blank line inside, with any number (zero
\* or more) of blank or white-space lines between them, then validateTeam accepts
\* what validateAndFixTeam returns, as six entries that are the six records.
C12_DriftRepaired ==
    (pc = "returned" /\ call \in {"validateAndFixTeam", "generateTeamWithAI"}
        /\ C12_Drifted) =>
        LET again == validateTeam(ret.value)
        IN  /\ again.valid
            /\ again.pokemon_count = 6
            /\ \A i \in 1..6 :
                   TrimmedLines(again.details[i].pokemon) = TrimmedLines(slots[i].entry)

\* six records with no blank line between some and a line of white space between
\* others: validateTeam rejects the text, and accepts the repaired one
C12_Witness ==
    /\ pc = "returned" /\ call = "validateAndFixTeam"
    /\ C12_Drifted
    /\ \E i \in 1..5 : slots[i].sep = <<"\n">>
    /\ \E i \in 1..5 : slots[i].sep = <<"\n", " ", "\n">>
    /\ ~validateTeam(arg).valid
    /\ validateTeam(ret.value).valid

(***************************************************************************)
(* C13: validateAndFixTeam applied to its own result                       *)
(***************************************************************************)

\* C13: for every text T, validateAndFixTeam(validateAndFixTeam(T)) is
\* validateAndFixTeam(T): the second call, whose argument is what the first call
\* returned for T, returns its argument.
C13_Idempotent ==
    (pc = "returned" /\ call = "validateAndFixTeam again") =>
        /\ Return(arg) = validateAndFixTeam(Content(slots))
        /\ ret = Return(arg)

\* the first call changed a text that validateTeam rejects, its result is
\* rejected too, and the second call re-segmented it into the same text
C13_Witness ==
    /\ pc = "returned" /\ call = "validateAndFixTeam again"
    /\ arg # << >>
    /\ arg # Content(slots)
    /\ ~validateTeam(Content(slots)).valid
    /\ ~validateTeam(arg).valid
    /\ ret = Return(arg)

(***************************************************************************)
(* C14: the shape of a re-segmented text                                   *)
(***************************************************************************)

\* a line that is empty or holds white space only
C14_BlankLine(line) == \A j \in 1..Len(line) : IsWhite(line[j])

C14_ItemLine(line) == \E j \in 1..Len(line) : line[j] = "@"

\* text R is entries of one or more non-blank lines, one empty line between two
\* entries, no blank line before the first or after the last, and '@' lines
\* at the start of an entry only
C14_WellSegmented(R) ==
    LET L == Split(R, <<"\n">>)
        entries == Split(R, <<"\n", "\n">>)
    IN  R # << >> =>
            /\ ~C14_BlankLine(L[1])
            /\ ~C14_BlankLine(L[Len(L)])
            /\ \A i \in 1..Len(L) : C14_BlankLine(L[i]) => L[i] = << >>
            /\ \A i \in 1..(Len(L) - 1) : ~(C14_BlankLine(L[i]) /\ C14_BlankLine(L[i + 1]))
            /\ \A i \in 2..Len(L) : C14_ItemLine(L[i]) => L[i - 1] = << >>
            /\ \A e \in 1..Len(entries) :
                   LET ls == Split(entries[e], <<"\n">>)
                   IN  /\ entries[e] # << >>
                       /\ \A i \in 1..Len(ls) :
                              /\ ~C14_BlankLine(ls[i])
                              /\ C14_ItemLine(ls[i]) => i = 1

\* C14: when validateTeam rejects T, what validateAndFixTeam returns is
\* well-segmented: every entry has a line and no blank line, one blank line
\* stands between two entries and none before the first or after the last, a
\* line with '@' is the first line of its entry, and the non-blank lines come in
\* the order they have in T (each without its leading and trailing white space).
C14_RepairWellSegmented ==
    (pc = "returned" /\ call = "validateAndFixTeam" /\ ~validateTeam(arg).valid) =>
        /\ C14_WellSegmented(ret.value)
        /\ NonBlankLines(ret.value) = TrimAll(NonBlankLines(arg))

\* a rejected text with two blank lines in a row and with a header line right
\* after a move line has come back as six entries
C14_Witness ==
    /\ harness = "team" /\ pc = "returned" /\ call = "validateAndFixTeam"
    /\ ~validateTeam(arg).valid
    /\ \E i \in 1..(Len(arg) - 2) : arg[i] = "\n" /\ arg[i + 1] = "\n" /\ arg[i + 2] = "\n"
    /\ \E i \in 1..(Len(arg) - 2) : arg[i] = "\n" /\ arg[i + 1] # "\n" /\ arg[i + 1] # "-"
                                      /\ i > 1 /\ arg[i - 1] # "\n"
                                      /\ \E k \in (i + 1)..Len(arg) :
                                             /\ arg[k] = "@"
                                             /\ \A m \in (i + 1)..k : arg[m] # "\n"
    /\ Len(Split(ret.value, <<"\n", "\n">>)) = 6
    /\ ret.value # arg

=============================================================================
